---------------------------- MODULE Spec2Model ----------------------------
(* Model of master_rss.py: the per-source page loop (collect_articles),    *)
(* the cross-source merge and the JSON feed written by main.               *)
(*                                                                         *)
(* Time is counted in half seconds, so that the 2.5 s pause between        *)
(* requests is a whole number.  An article is the record                   *)
(* [link, pub_date, source]; title and teaser are copied through by every  *)
(* operation and are read by none of them, so they are left out.           *)
EXTENDS Integers, Sequences, FiniteSets, TLC

\* ------------------------------------------------------------------
\* Configuration (master_rss.py, KONFIGURACJA)
\* ------------------------------------------------------------------

\* 2.5 s, in half seconds
SLEEP_BETWEEN_REQUESTS == 5

HOURS_BACK == 24

\* requests.get(..., timeout=15), in half seconds
TIMEOUT == 30

Hour == 2 * 60 * 60

Day == 24 * Hour

\* timedelta(hours=HOURS_BACK)
Window == HOURS_BACK * Hour

SOURCES ==
  [ bankier |->
      [ name |-> "Bankier.pl",
        base_url |-> "https://www.bankier.pl",
        urls |-> << <<"https://www.bankier.pl/wiadomosc/", 5, "bankier_news">>,
                    <<"https://www.bankier.pl/gielda/wiadomosci/", 5, "bankier_gielda">> >> ],
    pap |->
      [ name |-> "PAP Biznes",
        base_url |-> "https://biznes.pap.pl",
        urls |-> << <<"https://biznes.pap.pl/kategoria/depesze-pap", 10, "pap">> >> ] ]

\* SOURCES.keys(): a dict keeps its insertion order
SourceKeys == <<"bankier", "pap">>

\* ------------------------------------------------------------------
\* Bounds of the model and the inputs drawn from the environment
\* ------------------------------------------------------------------

\* items on one listing page
MaxPerPage == 1

\* fetches of one run that end in a timeout
MaxSlow == 1

\* candidates of one aggregation in AggSpec
MaxCands == 3

\* the wall clock when main starts
RunStart == 2 * Window

\* the dates a listing shows: before the window, exactly at the first
\* source's cutoff, and recent
PubDates == { RunStart - Window - 1, RunStart - Window, RunStart - 1 }

\* the date field of a listing item: <<d>>, or <<>> when it is missing or
\* does not parse
DateFields == { <<>> } \cup { <<d>> : d \in PubDates }

\* the href of a listing item: relative to the page (host "") or absolute
Hrefs ==
  { [host |-> "", path |-> "/wiadomosci/a-1"],
    [host |-> "https://www.bankier.pl", path |-> "/wiadomosci/b-2"] }

Items == [href : Hrefs, date : DateFields]

RECURSIVE SeqsUpTo(_, _)
SeqsUpTo(S, n) ==
  IF n = 0 THEN { <<>> }
  ELSE LET shorter == SeqsUpTo(S, n - 1)
       IN  shorter \cup { Append(s, x) : s \in { t \in shorter : Len(t) = n - 1 }, x \in S }

\* what a listing page can hold
Pages == SeqsUpTo(Items, MaxPerPage)

\* ------------------------------------------------------------------
\* Helpers
\* ------------------------------------------------------------------

Range(s) == { s[i] : i \in 1..Len(s) }

LinksOf(s) == { s[i].link : i \in 1..Len(s) }

\* urljoin(base_url, href)
urljoin(base_url, href) ==
  IF href.host = "" THEN base_url \o href.path ELSE href.host \o href.path

\* parse_bankier_news and parse_bankier_gielda: an item without a date that
\* parses is skipped
RECURSIVE parse_bankier(_, _)
parse_bankier(html, base_url) ==
  IF html = <<>> THEN <<>>
  ELSE LET it == Head(html)
           rest == parse_bankier(Tail(html), base_url)
       IN  IF it.date = <<>> THEN rest
           ELSE << [link |-> urljoin(base_url, it.href),
                    pub_date |-> it.date[1],
                    source |-> "Bankier.pl"] >> \o rest

\* parse_pap: an item without a date that parses gets the time of the parse
RECURSIVE parse_pap(_, _, _)
parse_pap(html, base_url, parse_now) ==
  IF html = <<>> THEN <<>>
  ELSE LET it == Head(html)
       IN  << [link |-> urljoin(base_url, it.href),
               pub_date |-> IF it.date = <<>> THEN parse_now ELSE it.date[1],
               source |-> "PAP Biznes"] >>
           \o parse_pap(Tail(html), base_url, parse_now)

\* PARSERS[parser_name](html, base_url)
Parse(parser_name, html, base_url, parse_now) ==
  IF parser_name = "pap" THEN parse_pap(html, base_url, parse_now)
  ELSE parse_bankier(html, base_url)

\* mutant of PageUrl: the page number is appended on page 1 as well
PageUrlAlwaysNumbered(section_url, page, parser_name) ==
  IF parser_name = "pap"
  THEN section_url \o "?page=" \o ToString(page)
  ELSE section_url \o ToString(page)

\* the url of a page; of the three parser names only "pap" contains "pap"
PageUrl(section_url, page, parser_name) ==
  IF parser_name = "pap"
  THEN IF page = 1 THEN section_url ELSE section_url \o "?page=" \o ToString(page)
  ELSE IF page = 1 THEN section_url ELSE section_url \o ToString(page)

\* cutoff = now - timedelta(hours=HOURS_BACK)
Cutoff(t) == t - Window

\* mutant of KeepOne: the seen-links test is missing
KeepOneNoSeenCheck(st, art, cut) ==
  IF art.pub_date < cut THEN st
  ELSE [arts |-> Append(st.arts, art), seen |-> st.seen \cup {art.link}]

\* mutant of KeepOne: the cutoff test is missing
KeepOneNoWindow(st, art, cut) ==
  IF art.link \in st.seen THEN st
  ELSE [arts |-> Append(st.arts, art), seen |-> st.seen \cup {art.link}]

\* mutant of KeepOne: the link is marked as seen before the cutoff test
KeepOneSeenFirst(st, art, cut) ==
  IF art.link \in st.seen THEN st
  ELSE IF art.pub_date < cut THEN [arts |-> st.arts, seen |-> st.seen \cup {art.link}]
  ELSE [arts |-> Append(st.arts, art), seen |-> st.seen \cup {art.link}]

\* mutant of KeepOne: a candidate exactly at the cutoff is dropped
KeepOneStrict(st, art, cut) ==
  IF art.link \in st.seen THEN st
  ELSE IF art.pub_date <= cut THEN st
  ELSE [arts |-> Append(st.arts, art), seen |-> st.seen \cup {art.link}]

\* one pass of the loop body of collect_articles over a candidate:
\* st is [arts, seen]
KeepOne(st, art, cut) ==
  IF art.link \in st.seen THEN st
  ELSE IF art.pub_date < cut THEN st
  ELSE [arts |-> Append(st.arts, art), seen |-> st.seen \cup {art.link}]

\* for art in parser(html, base_url): ...
RECURSIVE KeepLoop(_, _, _)
KeepLoop(st, arts, cut) ==
  IF arts = <<>> THEN st
  ELSE KeepLoop(KeepOne(st, Head(arts), cut), Tail(arts), cut)

\* mutant of PageResult: a failed fetch throws away what was collected
PageResultFailureResets(st, html, parser_name, base_url, parse_now, cut) ==
  IF html = <<>> THEN [arts |-> <<>>, seen |-> {}]
  ELSE IF html[1] = <<>> THEN st
  ELSE KeepLoop(st, Parse(parser_name, html[1], base_url, parse_now), cut)

\* html = fetch_page_html(url); if not html: continue; else the loop over the
\* parsed candidates.  html is <<>> for None and <<text>> otherwise; an
\* empty text is falsy as well
PageResult(st, html, parser_name, base_url, parse_now, cut) ==
  IF html = <<>> \/ html[1] = <<>> THEN st
  ELSE KeepLoop(st, Parse(parser_name, html[1], base_url, parse_now), cut)

\* mutant of LoopCutoff: the clock is read again for every page
LoopCutoffReread(cut, clk) == Cutoff(clk)

\* the cutoff the next iteration compares against: cutoff is assigned once,
\* before the loops, and no iteration assigns it again
LoopCutoff(cut, clk) == cut

\* insert x into a list sorted by pub_date descending, after every item
\* whose pub_date is not smaller (a stable sort keeps the order of ties)
RECURSIVE InsertDesc(_, _)
InsertDesc(s, x) ==
  IF s = <<>> THEN <<x>>
  ELSE IF Head(s).pub_date >= x.pub_date THEN <<Head(s)>> \o InsertDesc(Tail(s), x)
  ELSE <<x>> \o s

\* mutant of SortDesc: reverse=True is missing
RECURSIVE InsertAsc(_, _)
InsertAsc(s, x) ==
  IF s = <<>> THEN <<x>>
  ELSE IF Head(s).pub_date <= x.pub_date THEN <<Head(s)>> \o InsertAsc(Tail(s), x)
  ELSE <<x>> \o s

RECURSIVE SortAsc(_)
SortAsc(s) ==
  IF s = <<>> THEN <<>>
  ELSE InsertAsc(SortAsc(SubSeq(s, 1, Len(s) - 1)), s[Len(s)])

\* list.sort(key=lambda x: x["pub_date"], reverse=True)
RECURSIVE SortDesc(_)
SortDesc(s) ==
  IF s = <<>> THEN <<>>
  ELSE InsertDesc(SortDesc(SubSeq(s, 1, Len(s) - 1)), s[Len(s)])

\* mutant of MergeLoop: an article seen before is replaced by the later one
RECURSIVE MergeLoopLastWins(_, _)
MergeLoopLastWins(st, arts) ==
  IF arts = <<>> THEN st
  ELSE LET a == Head(arts)
           nxt == IF a.link \in st.seen
                  THEN [arts |-> [i \in 1..Len(st.arts) |->
                                    IF st.arts[i].link = a.link THEN a ELSE st.arts[i]],
                        seen |-> st.seen]
                  ELSE [arts |-> Append(st.arts, a), seen |-> st.seen \cup {a.link}]
       IN  MergeLoopLastWins(nxt, Tail(arts))

\* main: for art in articles: if art["link"] not in seen_links: ...
RECURSIVE MergeLoop(_, _)
MergeLoop(st, arts) ==
  IF arts = <<>> THEN st
  ELSE LET a == Head(arts)
           nxt == IF a.link \in st.seen THEN st
                  ELSE [arts |-> Append(st.arts, a), seen |-> st.seen \cup {a.link}]
       IN  MergeLoop(nxt, Tail(arts))

\* pub_date.isoformat(): the date and the time of day
isoformat(t) == [date |-> t \div Day, time |-> t % Day]

\* mutant of generate_combined_json: the items come out newest last
generate_combined_json_reversed(arts) ==
  [ version |-> "https://jsonfeed.org/version/1",
    home_page_url |-> "https://www.bankier.pl",
    items |-> [ i \in 1..Len(arts) |->
                  [ id |-> arts[Len(arts) + 1 - i].link,
                    url |-> arts[Len(arts) + 1 - i].link,
                    date_published |-> isoformat(arts[Len(arts) + 1 - i].pub_date),
                    source |-> arts[Len(arts) + 1 - i].source ] ] ]

\* generate_combined_json
generate_combined_json(arts) ==
  [ version |-> "https://jsonfeed.org/version/1",
    home_page_url |-> "https://www.bankier.pl",
    items |-> [ i \in 1..Len(arts) |->
                  [ id |-> arts[i].link,
                    url |-> arts[i].link,
                    date_published |-> isoformat(arts[i].pub_date),
                    source |-> arts[i].source ] ] ]


\* ------------------------------------------------------------------
\* State
\* ------------------------------------------------------------------

VARIABLES
  pc,             \* where main is: "main", "collect", "merge", "done"
  clock,          \* the wall clock, datetime.now(TZ_WARSAW)
  src,            \* main: index into SourceKeys of the source being processed
  urlIdx,         \* collect_articles: index into config["urls"]
  page,           \* collect_articles: the page about to be fetched
  now,            \* collect_articles: now
  cutoff,         \* collect_articles: cutoff
  c_all_articles, \* collect_articles: all_articles
  c_seen_links,   \* collect_articles: seen_links
  lastFetch,      \* outcome of the last fetch_page_html: "none", "ok", "failed"
  fetchLog,       \* the urls requests.get was called with, in order
  perSource,      \* main: the list each collect_articles call returned
  all_articles,   \* main: all_articles
  seen_links,     \* main: seen_links
  output,         \* the documents written to combined-feed.json
  cands,          \* AggSpec: the candidates in arrival order
  idx             \* AggSpec: how many candidates the loop has processed

vars ==
  << pc, clock, src, urlIdx, page, now, cutoff, c_all_articles, c_seen_links,
     lastFetch, fetchLog, perSource, all_articles, seen_links, output, cands, idx >>

Config == SOURCES[SourceKeys[src]]

\* ------------------------------------------------------------------
\* main and collect_articles
\* ------------------------------------------------------------------

Init ==
  /\ pc = "main"
  /\ clock = RunStart
  /\ src = 1
  /\ urlIdx = 1
  /\ page = 1
  /\ now = RunStart
  /\ cutoff = Cutoff(RunStart)
  /\ c_all_articles = <<>>
  /\ c_seen_links = {}
  /\ lastFetch = "none"
  /\ fetchLog = <<>>
  /\ perSource = <<>>
  /\ all_articles = <<>>
  /\ seen_links = {}
  /\ output = <<>>
  /\ cands = <<>>
  /\ idx = 0

\* main calls collect_articles(source_key): the locals are set up
StartCollect ==
  /\ pc = "main"
  /\ src <= Len(SourceKeys)
  /\ pc' = "collect"
  /\ c_all_articles' = <<>>
  /\ c_seen_links' = {}
  /\ now' = clock
  /\ cutoff' = Cutoff(clock)
  /\ urlIdx' = 1
  /\ page' = 1
  /\ UNCHANGED << clock, src, lastFetch, fetchLog, perSource, all_articles,
                  seen_links, output, cands, idx >>

\* fetch_page_html: one request, then the pause.  The result is <<>> for
\* None (timeout, transport error, status that is not 2xx) or <<text>>
FetchResults == { <<>> } \cup { <<p>> : p \in Pages }

\* the time a fetch takes: the pause after a response that comes at once,
\* or the timeout and then the pause when no response comes
FetchTimes(html) ==
  IF html = <<>>
  THEN { SLEEP_BETWEEN_REQUESTS, TIMEOUT + SLEEP_BETWEEN_REQUESTS }
  ELSE { SLEEP_BETWEEN_REQUESTS }

\* the loop position after one page
NextPosition(urls) ==
  IF page < urls[urlIdx][2] THEN << urlIdx, page + 1 >> ELSE << urlIdx + 1, 1 >>

\* one iteration of "for page in range(1, num_pages + 1)"
PageStep ==
  /\ pc = "collect"
  /\ urlIdx <= Len(Config.urls)
  /\ \E html \in FetchResults : \E took \in FetchTimes(html) :
       LET entry == Config.urls[urlIdx]
           url == PageUrl(entry[1], page, entry[3])
           st == [arts |-> c_all_articles, seen |-> c_seen_links]
           st2 == PageResult(st, html, entry[3], Config.base_url, clock', cutoff)
           pos == NextPosition(Config.urls)
       IN  /\ clock' = clock + took
           /\ clock' <= RunStart + (Len(fetchLog) + 1) * SLEEP_BETWEEN_REQUESTS
                          + MaxSlow * TIMEOUT
           /\ fetchLog' = Append(fetchLog, url)
           /\ lastFetch' = IF html = <<>> THEN "failed" ELSE "ok"
           /\ c_all_articles' = st2.arts
           /\ c_seen_links' = st2.seen
           /\ urlIdx' = pos[1]
           /\ page' = pos[2]
           /\ cutoff' = LoopCutoff(cutoff, clock')
  /\ UNCHANGED << pc, src, now, perSource, all_articles, seen_links,
                  output, cands, idx >>

\* the end of collect_articles: sort and return
FinishCollect ==
  /\ pc = "collect"
  /\ urlIdx > Len(Config.urls)
  /\ c_all_articles' = SortDesc(c_all_articles)
  /\ perSource' = Append(perSource, c_all_articles')
  /\ pc' = "merge"
  /\ UNCHANGED << clock, src, urlIdx, page, now, cutoff, c_seen_links, lastFetch,
                  fetchLog, all_articles, seen_links, output, cands, idx >>

\* main: the returned articles are added to all_articles
MergeStep ==
  /\ pc = "merge"
  /\ LET st == MergeLoop([arts |-> all_articles, seen |-> seen_links], perSource[src])
     IN  /\ all_articles' = st.arts
         /\ seen_links' = st.seen
  /\ src' = src + 1
  /\ pc' = "main"
  /\ UNCHANGED << clock, urlIdx, page, now, cutoff, c_all_articles, c_seen_links,
                  lastFetch, fetchLog, perSource, output, cands, idx >>

\* main after the loop: sort, serialize, write
WriteOutput ==
  /\ pc = "main"
  /\ src > Len(SourceKeys)
  /\ all_articles' = SortDesc(all_articles)
  /\ output' = Append(output, generate_combined_json(all_articles'))
  /\ pc' = "done"
  /\ UNCHANGED << clock, src, urlIdx, page, now, cutoff, c_all_articles,
                  c_seen_links, lastFetch, fetchLog, perSource, seen_links,
                  cands, idx >>

Next ==
  \/ StartCollect
  \/ PageStep
  \/ FinishCollect
  \/ MergeStep
  \/ WriteOutput

Spec == Init /\ [][Next]_vars

\* the run is one sequential thread: a step that can be taken is taken
FairSpec == Spec /\ WF_vars(Next)


\* ------------------------------------------------------------------
\* The aggregation loop of collect_articles on its own, one candidate a step
\* ------------------------------------------------------------------

\* the candidates a parser can hand to the loop for the first source
Candidates ==
  [ link : { urljoin(SOURCES.bankier.base_url, h) : h \in Hrefs },
    pub_date : PubDates,
    source : { SOURCES.bankier.name } ]

AggInit ==
  /\ pc = "agg_loop"
  /\ cands \in SeqsUpTo(Candidates, MaxCands)
  /\ idx = 0
  /\ clock = RunStart
  /\ src = 1
  /\ urlIdx = 1
  /\ page = 1
  /\ now = RunStart
  /\ cutoff = Cutoff(RunStart)
  /\ c_all_articles = <<>>
  /\ c_seen_links = {}
  /\ lastFetch = "none"
  /\ fetchLog = <<>>
  /\ perSource = <<>>
  /\ all_articles = <<>>
  /\ seen_links = {}
  /\ output = <<>>

\* one iteration of "for art in parser(html, base_url)"
AggStep ==
  /\ pc = "agg_loop"
  /\ idx < Len(cands)
  /\ LET st == KeepOne([arts |-> c_all_articles, seen |-> c_seen_links],
                       cands[idx + 1], cutoff)
     IN  /\ c_all_articles' = st.arts
         /\ c_seen_links' = st.seen
  /\ idx' = idx + 1
  /\ UNCHANGED << pc, clock, src, urlIdx, page, now, cutoff, lastFetch, fetchLog,
                  perSource, all_articles, seen_links, output, cands >>

\* all_articles.sort(...) after the loops
AggSort ==
  /\ pc = "agg_loop"
  /\ idx = Len(cands)
  /\ c_all_articles' = SortDesc(c_all_articles)
  /\ pc' = "agg_done"
  /\ UNCHANGED << clock, src, urlIdx, page, now, cutoff, c_seen_links, lastFetch,
                  fetchLog, perSource, all_articles, seen_links, output, cands, idx >>

AggNext ==
  \/ AggStep
  \/ AggSort

AggSpec == AggInit /\ [][AggNext]_vars


\* ------------------------------------------------------------------
\* Properties
\* ------------------------------------------------------------------

NoDuplicateLinks(s) ==
  \A i, j \in 1..Len(s) : s[i].link = s[j].link => i = j

IsSortedDesc(s) ==
  \A i \in 1..(Len(s) - 1) : s[i].pub_date >= s[i + 1].pub_date

IsPrefix(s, t) ==
  /\ Len(s) <= Len(t)
  /\ \A i \in 1..Len(s) : s[i] = t[i]

\* every article list the run holds
HeldLists == { c_all_articles, all_articles } \cup Range(perSource)

\* C1: no list returned by collect_articles, and neither the list being
\* collected nor the combined list of main, holds two articles with the
\* same link
C1_NoDuplicateLinks ==
  \A s \in HeldLists : NoDuplicateLinks(s)

\* the run is over and a link that both sources returned is in the combined
\* list once
C1_Witness ==
  /\ pc = "done"
  /\ Len(perSource) = 2
  /\ LinksOf(perSource[1]) \cap LinksOf(perSource[2]) /= {}
  /\ Len(perSource[1]) = 2
  /\ Len(all_articles) >= 2

\* C2: every article in a per-source list or in the combined list was
\* published no earlier than 24 hours before the run started
C2_WithinWindow ==
  \A s \in HeldLists : \A a \in Range(s) : a.pub_date >= RunStart - HOURS_BACK * Hour

\* the run is over and an article published exactly 24 hours before the run
\* started is in the output
C2_Witness ==
  /\ pc = "done"
  /\ \E a \in Range(all_articles) : a.pub_date = RunStart - HOURS_BACK * Hour
  /\ Len(output) = 1
  /\ Len(output[1].items) = Len(all_articles)

\* C3: every list returned by collect_articles and the combined list that
\* main serializes are ordered by pub_date, newest first
C3_SortedDescending ==
  /\ \A i \in 1..Len(perSource) : IsSortedDesc(perSource[i])
  /\ pc = "done" => IsSortedDesc(all_articles)

\* the run is over with a combined list of articles of different dates, of
\* which the second source returned the newest
C3_Witness ==
  /\ pc = "done"
  /\ Len(all_articles) >= 2
  /\ all_articles[1].pub_date > all_articles[Len(all_articles)].pub_date
  /\ all_articles[1].source = SOURCES.pap.name
  /\ Len(perSource[1]) = 2
  /\ perSource[1][1].pub_date > perSource[1][2].pub_date

\* C4: a failed fetch adds no article, leaves the collected articles and the
\* seen links as they were and moves on to the next page; the run ends, and
\* it ends with one document written, whose items are empty when no fetch
\* succeeded
C4_FailedFetchIsSkipped ==
  /\ [][ (Len(fetchLog') > Len(fetchLog) /\ lastFetch' = "failed")
           => /\ c_all_articles' = c_all_articles
              /\ c_seen_links' = c_seen_links
              /\ pc' = "collect"
              /\ << urlIdx', page' >> = NextPosition(Config.urls) ]_vars
  /\ [](pc = "done" => /\ Len(output) = 1
                       /\ output[1].version = "https://jsonfeed.org/version/1"
                       /\ Len(output[1].items) = Len(all_articles))
  /\ [](pc /= "done" => output = <<>>)
  /\ <>(pc = "done")
  /\ ([](lastFetch /= "ok") => [](pc = "done" => output[1].items = <<>>))

\* a fetch has just failed after articles were collected, and they are kept
C4_Witness ==
  /\ pc = "collect"
  /\ lastFetch = "failed"
  /\ Len(c_all_articles) = 2
  /\ page > 1

\* the urls of one listing entry: page 1 is the template, the later pages
\* the successor form of the source
ExpectedEntryUrls(key, entry) ==
  [ p \in 1..entry[2] |->
      IF p = 1 THEN entry[1]
      ELSE IF key = "pap" THEN entry[1] \o "?page=" \o ToString(p)
      ELSE entry[1] \o ToString(p) ]

RECURSIVE Concat(_)
Concat(ss) ==
  IF ss = <<>> THEN <<>> ELSE Head(ss) \o Concat(Tail(ss))

ExpectedSourceUrls(key) ==
  Concat([ e \in 1..Len(SOURCES[key].urls) |-> ExpectedEntryUrls(key, SOURCES[key].urls[e]) ])

\* the urls of the sources 1..n, in order
ExpectedUrlsThrough(n) ==
  Concat([ s \in 1..n |-> ExpectedSourceUrls(SourceKeys[s]) ])

\* C5: the fetches made so far are the first ones of the fixed sequence
\* "every source in order, every entry in order, pages 1..N in order", each
\* url once; when a source is finished all N pages of each of its entries
\* were attempted, whatever the pages returned
C5_ExactlyNFetchesInOrder ==
  /\ IsPrefix(fetchLog, ExpectedUrlsThrough(Len(SourceKeys)))
  /\ \A i, j \in 1..Len(fetchLog) : fetchLog[i] = fetchLog[j] => i = j
  /\ pc = "main" => fetchLog = ExpectedUrlsThrough(src - 1)
  /\ pc = "merge" => fetchLog = ExpectedUrlsThrough(src)
  /\ pc = "done" => fetchLog = ExpectedUrlsThrough(Len(SourceKeys))

\* the run is over, its last fetch failed and no article was found
C5_Witness ==
  /\ pc = "done"
  /\ lastFetch = "failed"
  /\ all_articles = <<>>
  /\ Len(fetchLog) = 20

\* the first source, in declaration order, whose list has the link
FirstSourceWith(link) ==
  CHOOSE i \in 1..Len(perSource) :
    /\ link \in LinksOf(perSource[i])
    /\ \A j \in 1..(i - 1) : link \notin LinksOf(perSource[j])

\* C6: when all sources are merged the combined list has exactly the links
\* of the per-source lists, each once, and the article of a link is the one
\* of the first source that returned it
C6_CrossSourceMerge ==
  (pc \in {"main", "done"} /\ src > Len(SourceKeys)) =>
    /\ LinksOf(all_articles) = UNION { LinksOf(perSource[i]) : i \in 1..Len(perSource) }
    /\ NoDuplicateLinks(all_articles)
    /\ \A a \in Range(all_articles) : a \in Range(perSource[FirstSourceWith(a.link)])

\* the run is over, both sources returned the same link, the first source
\* returned an article that is older than the second source's cutoff, and
\* both are in the combined list
C6_Witness ==
  /\ pc = "done"
  /\ \E a \in Range(perSource[1]), b \in Range(perSource[2]) :
       /\ a.link = b.link
       /\ a.pub_date /= b.pub_date
       /\ a \in Range(all_articles)
  /\ \E a \in Range(all_articles) : a.pub_date < cutoff

\* C7: the feed written has one item per article of the combined list, and
\* the i-th item's id and url are the i-th article's link
C7_SerializerKeepsItems ==
  pc = "done" =>
    /\ Len(output) = 1
    /\ Len(output[1].items) = Len(all_articles)
    /\ \A i \in 1..Len(all_articles) :
         /\ output[1].items[i].id = all_articles[i].link
         /\ output[1].items[i].url = all_articles[i].link

\* a feed of three items with three different links was written
C7_Witness ==
  /\ pc = "done"
  /\ Len(output) = 1
  /\ Len(output[1].items) = 3
  /\ output[1].items[1].id /= output[1].items[3].id

\* C8 as stated: every comparison of the run uses the cutoff "start of the
\* run minus 24 hours"
C8_OneCutoffPerRun ==
  pc = "collect" => cutoff = RunStart - HOURS_BACK * Hour

\* C8 amended: now is read when collect_articles starts, once for each
\* source; cutoff is now minus 24 hours and neither changes while the pages
\* of that source are processed; the cutoff of a later source is not earlier
C8_OneCutoffPerSource ==
  /\ [][ (pc' = "collect" /\ pc /= "collect") => (now' = clock /\ cutoff' >= cutoff) ]_vars
  /\ [][ (pc' = "collect" /\ pc = "collect") => (now' = now /\ cutoff' = cutoff) ]_vars
  /\ [](pc = "collect" => cutoff = now - HOURS_BACK * Hour)

\* the second source is some pages in: the clock has moved on since its now
\* was read, and its cutoff is later than the first source's
C8_Witness ==
  /\ pc = "collect"
  /\ src = 2
  /\ page > 2
  /\ clock > now
  /\ cutoff > RunStart - HOURS_BACK * Hour
  /\ \E a \in Range(all_articles) : a.pub_date < cutoff

\* ---- the aggregation loop (AggSpec)

\* collect_articles on a candidate sequence: the loop, then the sort
Collect(cs, cut) ==
  SortDesc(KeepLoop([arts |-> <<>>, seen |-> {}], cs, cut).arts)

\* main on the lists of two sources
Merge2(first, second) ==
  SortDesc(MergeLoop(MergeLoop([arts |-> <<>>, seen |-> {}], first), second).arts)

\* every arrival order of the candidates
ArrivalOrders(cs) ==
  { [ i \in 1..Len(cs) |-> cs[f[i]] ] : f \in Permutations(1..Len(cs)) }

\* the candidates inside the window that have the same link are the same
\* article
LinkDeterminesArticle(cs, cut) ==
  \A i, j \in 1..Len(cs) :
    (cs[i].link = cs[j].link /\ cs[i].pub_date >= cut /\ cs[j].pub_date >= cut)
      => cs[i] = cs[j]

\* C9 as stated: whatever the arrival order, the same articles are kept, by
\* the loop of one source and by the merge of two sources
C9_OrderIndependent ==
  pc = "agg_done" =>
    /\ \A p \in ArrivalOrders(cands) :
         /\ Range(Collect(p, cutoff)) = Range(c_all_articles)
         /\ IsSortedDesc(Collect(p, cutoff))
    /\ \A k \in 0..Len(cands) :
         LET first == Collect(SubSeq(cands, 1, k), cutoff)
             second == Collect(SubSeq(cands, k + 1, Len(cands)), cutoff)
         IN  Range(Merge2(first, second)) = Range(Merge2(second, first))

\* C9 amended: whatever the arrival order, the same links are kept and the
\* result is sorted; the article kept for a link is the same when the
\* candidates of that link inside the window are equal
C9_LinksOrderIndependent ==
  pc = "agg_done" =>
    /\ \A p \in ArrivalOrders(cands) :
         /\ LinksOf(Collect(p, cutoff)) = LinksOf(c_all_articles)
         /\ IsSortedDesc(Collect(p, cutoff))
         /\ IsSortedDesc(c_all_articles)
         /\ LinkDeterminesArticle(cands, cutoff)
              => Range(Collect(p, cutoff)) = Range(c_all_articles)
    /\ \A k \in 0..Len(cands) :
         LET first == Collect(SubSeq(cands, 1, k), cutoff)
             second == Collect(SubSeq(cands, k + 1, Len(cands)), cutoff)
         IN  /\ LinksOf(Merge2(first, second)) = LinksOf(Merge2(second, first))
             /\ IsSortedDesc(Merge2(first, second))
             /\ LinkDeterminesArticle(cands, cutoff)
                  => Range(Merge2(first, second)) = Range(Merge2(second, first))

\* three candidates were aggregated: one outside the window, then one of the
\* same link inside it, and one of another link
C9_Witness ==
  /\ pc = "agg_done"
  /\ Len(cands) = 3
  /\ cands[1].pub_date < cutoff
  /\ cands[2].link = cands[1].link
  /\ cands[2].pub_date >= cutoff
  /\ cands[3].link /= cands[1].link
  /\ Len(c_all_articles) = 2

\* the first candidate at or after the cutoff among cs[1..n] with this link
FirstInWindow(cs, n, link, cut) ==
  LET hits == { i \in 1..n : cs[i].link = link /\ cs[i].pub_date >= cut }
  IN  CHOOSE i \in hits : \A j \in hits : i <= j

\* C10: at every point of the loop the seen links are the links of the
\* articles kept; a link is kept exactly when a candidate of that link at or
\* after the cutoff has been processed, and the article kept is the first
\* such candidate
C10_SeenIsKept ==
  /\ c_seen_links = LinksOf(c_all_articles)
  /\ \A l \in { cands[i].link : i \in 1..idx } :
       l \in LinksOf(c_all_articles)
         <=> \E i \in 1..idx : cands[i].link = l /\ cands[i].pub_date >= cutoff
  /\ \A a \in Range(c_all_articles) : a = cands[FirstInWindow(cands, idx, a.link, cutoff)]
  /\ LinksOf(c_all_articles) \subseteq { cands[i].link : i \in 1..idx }

\* the loop dropped a candidate for its date, then kept a candidate of the
\* same link that is exactly at the cutoff, and skipped a later one
C10_Witness ==
  /\ pc = "agg_loop"
  /\ idx = 3
  /\ cands[1].pub_date < cutoff
  /\ cands[2].link = cands[1].link
  /\ cands[2].pub_date = cutoff
  /\ cands[3].link = cands[1].link
  /\ cands[3].pub_date > cutoff
  /\ c_all_articles = << cands[2] >>

=============================================================================
